---- MODULE Spec2Model ----
(***************************************************************************)
(* A model of fast_api_builder/govesb/govesb.py: the GovEsb singleton, its  *)
(* token lifecycle (init, get_instance, request_esb_token) and its two      *)
(* protocol flows (consume, aconsume), run by asyncio tasks that interleave *)
(* at their await points.                                                   *)
(***************************************************************************)
EXTENDS Integers, Sequences, FiniteSets, TLC

\* ---------------------------------------------------------------- bounds
\* The clock runs from 0 to MaxTime.
MaxTime == 2
\* The token endpoint issues at most MaxTokens access tokens.
MaxTokens == 2
\* The tasks start at most MaxCalls calls between them.
MaxCalls == 3

\* The asyncio tasks of the process.
Tasks == {"t1", "t2"}

\* ------------------------------------------------------- Python values
\* An attribute that may be None: None is <<>>, a value v is <<v>>.
None == <<>>
Some(v) == <<v>>
\* Python truthiness of an optional string.
Truthy(x) == x # None /\ x[1] # ""

\* The safety margin subtracted from expires_in.
Margin == 60
\* The default of init's timeout parameter.
DefaultTimeout == 180
\* The expires_in values the token endpoint sends.
ExpiresIn == {60, 61}

\* ------------------------------------------------------------ the state
VARIABLES
    created,          \* cls._instance is not None
    attrs,            \* hasattr(cls._instance, 'initialized'): __init__ has run
    client_id, client_secret, grant_type,
    private_key, public_key,
    engine_url, token_url, timeout,
    auth_basic_body,
    access_token, token_expiry,
    initialized,
    now,              \* time.time()
    issued,           \* the number of access tokens the token endpoint has issued
    task,             \* per task: the coroutine it runs and where it stands
    last,             \* the call that finished last, if no call has started since
    calls             \* the number of calls started so far

config == <<client_id, client_secret, grant_type, private_key, public_key,
            engine_url, token_url, timeout, auth_basic_body>>
token == <<access_token, token_expiry>>
vars == <<created, attrs, config, token, initialized, now, issued, task, last, calls>>

\* ------------------------------------------------------------ the keys
\* PEM texts: the private or the public half of a key pair, or a text that
\* does not parse.
PrivatePem(k) == [half |-> "private", pair |-> k]
PublicPem(k) == [half |-> "public", pair |-> k]
BadPem == [half |-> "garbage", pair |-> "none"]

\* serialization.load_pem_private_key raises on a text that is no private key.
PrivatePemLoads(pem) == pem.half = "private"
get_private_key_from_pem(pem) == pem.pair
PublicPemLoads(pem) == pem.half = "public"
get_public_key_from_pem(pem) == pem.pair

\* ------------------------------------------------- the arguments of init
InitArgs ==
    { [client_id |-> "idA", client_secret |-> "secA", grant_type |-> "",
       private_key |-> PrivatePem("k1"), public_key |-> PublicPem("k1"),
       engine_url |-> "https://esb", token_url |-> "https://esb/token",
       timeout |-> DefaultTimeout],
      [client_id |-> "idB", client_secret |-> "secB", grant_type |-> "password",
       private_key |-> PrivatePem("k1"), public_key |-> PublicPem("k1"),
       engine_url |-> "https://esb", token_url |-> "https://esb/token",
       timeout |-> DefaultTimeout],
      [client_id |-> "idA", client_secret |-> "secA", grant_type |-> "",
       private_key |-> BadPem, public_key |-> PublicPem("k1"),
       engine_url |-> "https://esb", token_url |-> "https://esb/token",
       timeout |-> DefaultTimeout] }

\* ------------------------------------------------------------ the tasks
\* What a finished call handed to its caller.
NoResult == [kind |-> "none", val |-> "none"]
Return(v) == [kind |-> "return", val |-> v]
Raise(e) == [kind |-> "raise", val |-> e]

\* A task that has not called anything yet.
IdleTask ==
    [ pc |-> "idle",          \* the await the coroutine is suspended at
      op |-> "none",          \* the method of the current (or last) call
      ret |-> NoResult,       \* what the last call returned or raised
      entry |-> [initialized |-> FALSE, token |-> "none"],
                              \* the manager as the call found it
      req |-> None,           \* the HTTP request in flight
      resp |-> None,          \* its response, once the peer has answered
      fetched |-> "none",     \* what the call's last request_esb_token returned
      tokReqs |-> 0,          \* token-endpoint requests the call has made
      posts |-> 0,            \* POSTs to {engine_url}/request the call has made
      procCalls |-> 0,        \* invocations of process_feedback by the call
      procArg |-> None,       \* the argument process_feedback was invoked with
      made |-> 0,             \* instances the constructor call has created
      audit |-> None,         \* the call's log_govesb_calls call, if it made one
      payload |-> None,       \* the payload argument of consume
      api_code |-> None ]     \* the api_code argument of consume

\* The locals of a call that starts now.
NewCall(name) ==
    [IdleTask EXCEPT !.op = name,
                     !.entry = [initialized |-> initialized,
                                token |-> IF token_expiry = None THEN "none"
                                          ELSE IF now >= token_expiry[1] THEN "expired"
                                          ELSE "valid"]]

Finish(l, result) == [l EXCEPT !.pc = "idle", !.ret = result]

\* Task t starts a call.
StartCall(t) ==
    /\ task[t].pc = "idle"
    /\ calls < MaxCalls
    /\ calls' = calls + 1

\* Task t goes on with the locals l. A call that has finished leaves the task
\* idle and is remembered as the last finished call, until the next call starts.
Step(t, l) ==
    /\ task' = [task EXCEPT ![t] = IF l.pc = "idle" THEN IdleTask ELSE l]
    /\ last' = IF l.pc = "idle" THEN l
               ELSE IF task[t].pc = "idle" THEN IdleTask
               ELSE last

Init ==
    /\ created = FALSE
    /\ attrs = FALSE
    /\ client_id = None /\ client_secret = None /\ grant_type = None
    /\ private_key = None /\ public_key = None
    /\ engine_url = None /\ token_url = None /\ timeout = None
    /\ auth_basic_body = None
    /\ access_token = None /\ token_expiry = None
    /\ initialized = FALSE
    /\ now = 0
    /\ issued = 0
    /\ task = [t \in Tasks |-> IdleTask]
    /\ last = IdleTask
    /\ calls = 0

\* hasattr(self, 'initialized'): __init__ has run on the instance before.
HasInitializedAttr == attrs

\* GovEsb(): __new__ creates the instance once, __init__ sets the attributes
\* only when the instance has no attribute 'initialized' yet.
Construct ==
    /\ created' = TRUE
    /\ attrs' = TRUE
    /\ IF ~HasInitializedAttr
       THEN /\ client_id' = None /\ client_secret' = None /\ grant_type' = None
            /\ private_key' = None /\ public_key' = None
            /\ engine_url' = None /\ token_url' = None /\ timeout' = None
            /\ auth_basic_body' = None
            /\ access_token' = None /\ token_expiry' = None
            /\ initialized' = FALSE
       ELSE UNCHANGED <<config, token, initialized>>
    /\ UNCHANGED <<now, issued, task, last, calls>>

\* The clock advances.
Tick ==
    /\ now < MaxTime
    /\ now' = now + 1
    /\ UNCHANGED <<created, attrs, config, token, initialized, issued, task, last, calls>>

\* ------------------------------------------------- the token endpoint
NoBody == [access_token |-> None, expires_in |-> None]

\* The access token the endpoint issues next, for the client of the request.
NextToken(req) == [n |-> issued + 1, client |-> req.headers.client_id]

\* A token request that fails: no response at all (connection error, timeout),
\* a non-2xx status, a 2xx body that is no JSON, a JSON object without
\* access_token.
FailedTokenResponses ==
    { [kind |-> k, body |-> NoBody] : k \in {"transport_error", "status_error", "not_json"} }
    \cup { [kind |-> "json", body |-> [access_token |-> None, expires_in |-> Some(61)]] }

\* The JSON objects in which the endpoint issues an access token, with or
\* without expires_in.
IssuedTokenResponses(req) ==
    { [kind |-> "json",
       body |-> [access_token |-> Some(NextToken(req)), expires_in |-> e]] :
         e \in {None} \cup {Some(x) : x \in ExpiresIn} }

\* basic_auth_header(): the client id and secret the request authenticates with.
basic_auth_header(id, secret) == [client_id |-> id, client_secret |-> secret]

\* The arguments of client.post in request_esb_token, lines 135-140.
TokenRequest(url, id, secret, body) ==
    [url |-> url, headers |-> basic_auth_header(id, secret), data |-> body]

\* request_esb_token up to its await: the POST to the token endpoint.
SendTokenRequest(l, waitpc, r) ==
    [l EXCEPT !.pc = waitpc, !.req = Some(r), !.resp = None, !.tokReqs = @ + 1]

TokenWaits == {"init_token", "lazy_token", "refresh_token"}

\* The token endpoint issues a token for the request of task t; the response
\* travels back while other tasks run.
TokenEndpoint(t) ==
    /\ task[t].pc \in TokenWaits
    /\ task[t].resp = None
    /\ issued < MaxTokens
    /\ \E r \in IssuedTokenResponses(task[t].req[1]) :
        task' = [task EXCEPT ![t].resp = Some(r)]
    /\ issued' = issued + 1
    /\ UNCHANGED <<created, attrs, config, token, initialized, now, last, calls>>

\* What the await of client.post in request_esb_token resumes with: the
\* response that travelled back, or a failure when none was issued.
TokenArrivals(t) ==
    IF task[t].resp # None THEN {task[t].resp[1]} ELSE FailedTokenResponses

\* request_esb_token after its await, lines 141-151.
\* raise_for_status() and response.json() succeed and data['access_token'] exists.
HasAccessToken(r) == r.kind = "json" /\ r.body.access_token # None
\* A fetch that returns True without having read data['access_token'].
FetchOkWithoutToken(r) == r.kind = "json" /\ r.body.expires_in # None

\* data['expires_in'] exists too: the function returns True.
FetchOk(r) == HasAccessToken(r) /\ r.body.expires_in # None
\* self.access_token = data['access_token']
AccessTokenAfter(r) == IF HasAccessToken(r) THEN r.body.access_token ELSE access_token
\* An expiry without the safety margin.
TokenExpiryAfterNoMargin(r) ==
    IF FetchOk(r) THEN Some(now + r.body.expires_in[1]) ELSE token_expiry

\* A fetch that postpones the expiry when it fails.
TokenExpiryAfterPostponing(r) ==
    IF FetchOk(r) THEN Some(now + r.body.expires_in[1] - Margin) ELSE Some(now + 1)

\* self.token_expiry = time.time() + data['expires_in'] - 60
TokenExpiryAfter(r) ==
    IF FetchOk(r) THEN Some(now + r.body.expires_in[1] - Margin) ELSE token_expiry

Fetched(r) == IF FetchOk(r) THEN "ok" ELSE "failed"

\* ------------------------------------------------------------- init
\* An init that does not look at self.initialized.
InitGuardAlways == TRUE

\* if not self.initialized
InitGuard == ~initialized

\* init up to its first await (or to its return).
InitStart(t) ==
    /\ StartCall(t)
    /\ created /\ attrs
    /\ \E a \in InitArgs :
        LET l == NewCall("init") IN
        IF InitGuard
        THEN /\ client_id' = Some(a.client_id)
             /\ client_secret' = Some(a.client_secret)
             /\ grant_type' = Some(IF a.grant_type # "" THEN a.grant_type
                                   ELSE "client_credentials")
             /\ engine_url' = Some(a.engine_url)
             /\ timeout' = Some(a.timeout)
             /\ token_url' = Some(a.token_url)
             /\ auth_basic_body' = Some([client_id |-> a.client_id,
                                         client_secret |-> a.client_secret,
                                         grant_type |-> grant_type'[1]])
             /\ IF ~PrivatePemLoads(a.private_key)
                THEN \* load_pem_private_key raises: except, return False
                     /\ UNCHANGED <<private_key, public_key>>
                     /\ Step(t, Finish(l, Return(FALSE)))
                ELSE IF ~PublicPemLoads(a.public_key)
                THEN /\ private_key' = Some(get_private_key_from_pem(a.private_key))
                     /\ UNCHANGED public_key
                     /\ Step(t, Finish(l, Return(FALSE)))
                ELSE /\ private_key' = Some(get_private_key_from_pem(a.private_key))
                     /\ public_key' = Some(get_public_key_from_pem(a.public_key))
                     /\ Step(t, SendTokenRequest(l, "init_token",
                                TokenRequest(token_url', client_id', client_secret',
                                             auth_basic_body')))
             /\ UNCHANGED <<created, attrs, token, initialized, now, issued>>
        ELSE \* already initialized: log_warning, return True
             /\ Step(t, Finish(l, Return(TRUE)))
             /\ UNCHANGED <<created, attrs, config, token, initialized, now, issued>>

\* init after request_esb_token: lines 102-107.
InitResume(t) ==
    /\ task[t].pc = "init_token"
    /\ \E r \in TokenArrivals(t) :
        /\ access_token' = AccessTokenAfter(r)
        /\ token_expiry' = TokenExpiryAfter(r)
        /\ initialized' = IF FetchOk(r) THEN TRUE ELSE initialized
        /\ Step(t, Finish([task[t] EXCEPT !.fetched = Fetched(r), !.resp = Some(r)],
                           Return(TRUE)))
    /\ UNCHANGED <<created, attrs, config, now, issued, calls>>

\* ------------------------------------------------------ get_instance
\* cls._instance is None or not cls._instance.initialized
NotInitialized == ~created \/ ~initialized
\* A retry that asks for nothing but the instance.
LazyConfiguredAlways == created

\* The stored configuration that lets get_instance retry, lines 55-58.
LazyConfigured ==
    /\ created
    /\ Truthy(client_id) /\ Truthy(client_secret)
    /\ Truthy(grant_type) /\ Truthy(token_url)
\* time.time() >= cls._instance.token_expiry
TokenExpired(expiry) == now >= expiry[1]

\* get_instance from line 65 on, with the expiry the instance holds by then:
\* refresh an expired token, else return the instance.
ExpiryCheck(l, expiry) ==
    IF expiry = None
    THEN Finish(l, Raise("TypeError"))
    ELSE IF TokenExpired(expiry)
    THEN SendTokenRequest(l, "refresh_token",
             TokenRequest(token_url, client_id, client_secret, auth_basic_body))
    ELSE Finish(l, Return("instance"))

\* get_instance up to its first await (or to its return).
GetInstanceStart(t) ==
    /\ StartCall(t)
    /\ LET l == NewCall("get_instance") IN
        Step(t, IF NotInitialized
                THEN IF LazyConfigured
                     THEN SendTokenRequest(l, "lazy_token",
                              TokenRequest(token_url, client_id, client_secret,
                                           auth_basic_body))
                     ELSE Finish(l, Raise("GovEsb service is not initialized."))
                ELSE ExpiryCheck(l, token_expiry))
    /\ UNCHANGED <<created, attrs, config, token, initialized, now, issued>>

\* get_instance after the retried initialization's request_esb_token, lines 60-69.
GetInstanceLazyResume(t) ==
    /\ task[t].pc = "lazy_token"
    /\ \E r \in TokenArrivals(t) :
       LET l == [task[t] EXCEPT !.fetched = Fetched(r), !.resp = Some(r)] IN
        /\ access_token' = AccessTokenAfter(r)
        /\ token_expiry' = TokenExpiryAfter(r)
        /\ Step(t, IF ~FetchOk(r)
                    THEN Finish(l, Raise("GovEsb service is not initialized."))
                    ELSE ExpiryCheck(l, token_expiry'))
    /\ UNCHANGED <<created, attrs, config, initialized, now, issued, calls>>

\* get_instance after the refresh's request_esb_token, lines 66-69.
GetInstanceRefreshResume(t) ==
    /\ task[t].pc = "refresh_token"
    /\ \E r \in TokenArrivals(t) :
       LET l == [task[t] EXCEPT !.fetched = Fetched(r), !.resp = Some(r)] IN
        /\ access_token' = AccessTokenAfter(r)
        /\ token_expiry' = TokenExpiryAfter(r)
        /\ Step(t, IF ~FetchOk(r)
                    THEN Finish(l, Raise("GovEsb token expired. Retry to update"))
                    ELSE Finish(l, Return("instance")))
    /\ UNCHANGED <<created, attrs, config, initialized, now, issued, calls>>

\* ------------------------------------------------------ JSON values
\* A Python value that json can serialize: its type t and, by type, the bool b,
\* the int n, the str s, or the items of a list or dict. A dict's items are its
\* <<key, value>> pairs in insertion order; a list's items have the key "".
JNull == [t |-> "null", b |-> FALSE, n |-> 0, s |-> "", items |-> <<>>]
JBool(x) == [JNull EXCEPT !.t = "bool", !.b = x]
JInt(x) == [JNull EXCEPT !.t = "int", !.n = x]
JStr(x) == [JNull EXCEPT !.t = "str", !.s = x]
JList(xs) == [JNull EXCEPT !.t = "list", !.items = [i \in 1..Len(xs) |-> <<"", xs[i]>>]]
JDict(pairs) == [JNull EXCEPT !.t = "dict", !.items = pairs]

\* bool(x)
IsTruthy(x) ==
    CASE x.t = "null" -> FALSE
      [] x.t = "bool" -> x.b
      [] x.t = "int" -> x.n # 0
      [] x.t = "str" -> x.s # ""
      [] OTHER -> Len(x.items) > 0

HasKey(d, k) == \E i \in 1..Len(d.items) : d.items[i][1] = k
\* d.get(k, default)
DictGet(d, k, default) ==
    IF HasKey(d, k)
    THEN d.items[CHOOSE i \in 1..Len(d.items) : d.items[i][1] = k][2]
    ELSE default

RECURSIVE JoinText(_)
\* ",".join(parts)
JoinText(parts) ==
    IF Len(parts) = 0 THEN ""
    ELSE IF Len(parts) = 1 THEN parts[1]
    ELSE parts[1] \o "," \o JoinText(Tail(parts))

RECURSIVE trim_payload(_)
\* json.dumps(payload, separators=(',', ':')): keys in insertion order, no
\* whitespace.
trim_payload(x) ==
    CASE x.t = "null" -> "null"
      [] x.t = "bool" -> IF x.b THEN "true" ELSE "false"
      [] x.t = "int" -> ToString(x.n)
      [] x.t = "str" -> "\"" \o x.s \o "\""
      [] x.t = "list" ->
            "[" \o JoinText([i \in 1..Len(x.items) |-> trim_payload(x.items[i][2])]) \o "]"
      [] OTHER ->
            "{" \o JoinText([i \in 1..Len(x.items) |->
                    "\"" \o x.items[i][1] \o "\":" \o trim_payload(x.items[i][2])]) \o "}"

\* ------------------------------------------------------ signatures
\* ECDSA is randomized: signing the same bytes twice may give two signatures.
Nonces == {1, 2}

\* A signature text: whether it is base64, whether its bytes are a well-formed
\* signature, and then the key pair, the bytes and the nonce it was made with.
Signature(pair, bytes, nonce) ==
    [b64 |-> TRUE, der |-> TRUE, pair |-> pair, bytes |-> bytes, nonce |-> nonce]
NotBase64 == [b64 |-> FALSE, der |-> FALSE, pair |-> "none", bytes |-> "", nonce |-> 0]
NotASignature == [b64 |-> TRUE, der |-> FALSE, pair |-> "none", bytes |-> "", nonce |-> 0]

\* A signer that signs other bytes than the canonical ones: a line feed follows.
sign_payload_with_newline(key, payload, nonce) ==
    Signature(key, trim_payload(payload) \o "\n", nonce)

\* sign_payload with the private key `key`.
sign_payload(key, payload, nonce) == Signature(key, trim_payload(payload), nonce)

\* A verification that accepts a signature made with any key pair.
verify_signature_any_key(key, signature, payload) ==
    IF key = None THEN "AttributeError"
    ELSE IF signature = None THEN "TypeError"
    ELSE IF ~signature[1].b64 THEN "binascii.Error"
    ELSE IF signature[1].der /\ signature[1].bytes = trim_payload(payload)
         THEN "True"
         ELSE "False"

\* verify_signature with the public key `key`: "True", "False", or the
\* exception that leaves it. Only InvalidSignature is caught.
verify_signature(key, signature, payload) ==
    IF key = None THEN "AttributeError"               \* self.public_key is None
    ELSE IF signature = None THEN "TypeError"         \* b64decode(None)
    ELSE IF ~signature[1].b64 THEN "binascii.Error"   \* b64decode of a text that is no base64
    ELSE IF /\ signature[1].der
            /\ signature[1].pair = key[1]
            /\ signature[1].bytes = trim_payload(payload)
         THEN "True"
         ELSE "False"

\* ------------------------------------------------------ build_esb_payload
\* The data dict of build_esb_payload, lines 220-237; None is JNull.
EsbData(payload, api_code, success, message, errors, validation_errors) ==
    JDict(<<<<"esbBody", payload>>>>
          \o (IF IsTruthy(api_code) THEN <<<<"apiCode", api_code>>>> ELSE <<>>)
          \o (IF success # JNull THEN <<<<"success", success>>>> ELSE <<>>)
          \o (IF IsTruthy(message) THEN <<<<"message", message>>>> ELSE <<>>)
          \o (IF IsTruthy(errors) THEN <<<<"errors", errors>>>> ELSE <<>>)
          \o (IF IsTruthy(validation_errors)
              THEN <<<<"validationErrors", validation_errors>>>> ELSE <<>>))

\* A builder that signs the payload alone instead of the data object.
build_esb_payload_signs_body(payload, api_code, success, message, errors, validation_errors, nonce) ==
    LET data == EsbData(payload, api_code, success, message, errors, validation_errors)
    IN [data |-> Some(data), signature |-> Some(sign_payload(private_key[1], payload, nonce))]

\* build_esb_payload, signed with the stored private key.
build_esb_payload(payload, api_code, success, message, errors, validation_errors, nonce) ==
    LET data == EsbData(payload, api_code, success, message, errors, validation_errors)
    IN [data |-> Some(data), signature |-> Some(sign_payload(private_key[1], data, nonce))]

\* ------------------------------------------------------ the audit sink
\* log_govesb_calls lives in utils/error_logging.py: the call may succeed or raise.
SinkOutcomes == {"ok", "raises"}

\* ------------------------------------------------------ consume
EmptyBody == JDict(<<>>)
Payloads == {JDict(<<<<"a", JInt(1)>>>>)}
ApiCodes == {"CODE1"}

\* The key pair the bus signs with, and one that is not the bus's.
BusPair == "k1"
OtherPair == "k2"

\* The data objects the bus answers with.
BusOk == JDict(<<<<"success", JBool(TRUE)>>, <<"esbBody", JDict(<<<<"a", JInt(1)>>>>)>>>>)
BusRejected ==
    JDict(<<<<"success", JBool(FALSE)>>, <<"esbBody", EmptyBody>>,
            <<"message", JStr("rejected")>>, <<"errors", JList(<<JInt(7)>>)>>>>)
BusNoSuccess == JDict(<<<<"esbBody", EmptyBody>>>>)

BusSigned(data, pair) ==
    [data |-> Some(data), signature |-> Some(Signature(pair, trim_payload(data), 1))]

\* What the POST to {engine_url}/request may end in: no response (connection
\* error, timeout), a non-2xx status, a 2xx body that is no JSON, or a 2xx JSON
\* object.
BusResponses ==
    { [kind |-> k, json |-> [data |-> None, signature |-> None]] :
          k \in {"transport_error", "status_error", "not_json"} }
    \cup { [kind |-> "json", json |-> j] : j \in
            { BusSigned(BusOk, BusPair), BusSigned(BusRejected, BusPair),
              BusSigned(BusNoSuccess, BusPair),
              BusSigned(BusOk, OtherPair),
              [data |-> Some(BusOk), signature |-> Some(Signature(BusPair, trim_payload(BusRejected), 1))],
              [data |-> Some(BusOk), signature |-> Some(NotASignature)],
              [data |-> Some(BusOk), signature |-> Some(NotBase64)],
              [data |-> Some(BusOk), signature |-> None],
              [data |-> None, signature |-> Some(Signature(BusPair, trim_payload(BusOk), 1))] } }

\* GovEsvData(**data): success is required, the other fields have defaults.
DataValidates(data) == HasKey(data, "success") /\ DictGet(data, "success", JNull).t = "bool"
GovEsvData(data) ==
    [ success |-> DictGet(data, "success", JNull),
      requestId |-> DictGet(data, "requestId", JNull),
      esbBody |-> DictGet(data, "esbBody", EmptyBody),
      message |-> DictGet(data, "message", JNull),
      errors |-> DictGet(data, "errors", JList(<<>>)),
      validationErrors |-> DictGet(data, "validationErrors", JList(<<>>)) ]

\* A failure result that carries the text of the exception instead.
ConsumeFailureSignatureText(api_code) ==
    [ success |-> JBool(FALSE),
      requestId |-> JStr("uuid4"),
      esbBody |-> EmptyBody,
      message |-> JStr("Signature verification failed!"),
      errors |-> JList(<<>>),
      validationErrors |-> JList(<<>>) ]

\* The GovEsvData of the except branch, lines 281-287.
ConsumeFailure(api_code) ==
    [ success |-> JBool(FALSE),
      requestId |-> JStr("uuid4"),
      esbBody |-> EmptyBody,
      message |-> JStr("Failed to consume from apiCode: " \o api_code),
      errors |-> JList(<<>>),
      validationErrors |-> JList(<<>>) ]

\* consume up to its await: the envelope is built and posted with the stored
\* access token, lines 246-258. A missing private key raises inside the try,
\* and the except branch then reads the unbound local `response`.
ConsumeStart(t) ==
    /\ StartCall(t)
    /\ created /\ attrs
    /\ \E payload \in Payloads, api_code \in ApiCodes, nonce \in Nonces :
        LET l == [NewCall("consume") EXCEPT !.payload = Some(payload),
                                           !.api_code = Some(api_code)]
        IN
        Step(t, IF private_key = None
                THEN Finish(l, Raise("UnboundLocalError"))
                ELSE [l EXCEPT
                        !.pc = "bus_post",
                        !.posts = @ + 1,
                        !.req = Some([url |-> engine_url,
                                      json |-> build_esb_payload(payload, JStr(api_code),
                                                   JNull, JNull, JNull, JNull, nonce),
                                      bearer |-> access_token])])
    /\ UNCHANGED <<created, attrs, config, token, initialized, now, issued>>

\* The log_govesb_calls call of consume, lines 263-267: the envelope is built
\* again for it.
ConsumeAudit(l, r, nonce, sink) ==
    Some([api_code |-> l.api_code,
          request |-> build_esb_payload(l.payload[1], JStr(l.api_code[1]),
                                        JNull, JNull, JNull, JNull, nonce),
          response |-> r.json,
          sink |-> sink])

\* consume after its await, lines 258-287: what it returns or raises for the
\* response r.
ConsumeResult(l, r, sink) ==
    LET failure == Return(ConsumeFailure(l.api_code[1])) IN
    IF r.kind = "transport_error"
    THEN Raise("UnboundLocalError")      \* the except branch reads `response`
    ELSE IF r.kind # "json" THEN failure \* raise_for_status(), response.json()
    ELSE IF sink = "raises" THEN failure \* log_govesb_calls raised
    ELSE IF r.json.signature = None \/ r.json.data = None THEN failure   \* KeyError
    ELSE IF verify_signature(public_key, r.json.signature, r.json.data[1]) # "True"
         THEN failure                    \* 'Signature verification failed!' or an exception
    ELSE IF ~DataValidates(r.json.data[1]) THEN failure
    ELSE Return(GovEsvData(r.json.data[1]))

\* A resumption of consume that forgets the bearer token it has just used.
ConsumeResumeDroppingToken(t) ==
    /\ task[t].pc = "bus_post"
    /\ \E r \in BusResponses, sink \in SinkOutcomes :
        Step(t, Finish([task[t] EXCEPT !.resp = Some(r)],
                       ConsumeResult(task[t], r, sink)))
    /\ access_token' = None
    /\ UNCHANGED <<created, attrs, config, token_expiry, initialized, now, issued, calls>>

ConsumeResume(t) ==
    /\ task[t].pc = "bus_post"
    /\ \E r \in BusResponses, nonce \in Nonces, sink \in SinkOutcomes :
        Step(t, Finish([task[t] EXCEPT
                          !.audit = IF r.kind = "json"
                                    THEN ConsumeAudit(task[t], r, nonce, sink)
                                    ELSE None,
                          !.resp = Some(r)],
                       ConsumeResult(task[t], r, sink)))
    /\ UNCHANGED <<created, attrs, config, token, initialized, now, issued, calls>>

\* ------------------------------------------------------ aconsume
\* The data objects of inbound callbacks.
InboundData == JDict(<<<<"esbBody", JDict(<<<<"a", JInt(1)>>>>)>>>>)
OtherData == JDict(<<<<"esbBody", JDict(<<<<"a", JInt(2)>>>>)>>>>)

\* The request bodies the host hands to aconsume: signed by the bus, signed
\* with another key, signed over other data, with a signature that is no
\* signature or no base64, without a signature, without data.
RequestBodies ==
    { BusSigned(InboundData, BusPair),
      BusSigned(InboundData, OtherPair),
      [data |-> Some(InboundData), signature |-> Some(Signature(BusPair, trim_payload(OtherData), 1))],
      [data |-> Some(InboundData), signature |-> Some(NotASignature)],
      [data |-> Some(InboundData), signature |-> Some(NotBase64)],
      [data |-> Some(InboundData), signature |-> None],
      [data |-> None, signature |-> Some(Signature(BusPair, trim_payload(InboundData), 1))] }

\* What awaiting process_feedback ends in: the tuple (success, message,
\* esbBody) it returns, or the exception it raises.
ProcessResults ==
    { [raises |-> FALSE, success |-> JBool(TRUE), message |-> JStr("ok"),
       esbBody |-> JDict(<<<<"x", JInt(1)>>>>)],
      [raises |-> FALSE, success |-> JBool(FALSE), message |-> JNull, esbBody |-> EmptyBody],
      [raises |-> FALSE, success |-> JBool(TRUE), message |-> JStr(""), esbBody |-> EmptyBody],
      [raises |-> TRUE, success |-> JNull, message |-> JNull, esbBody |-> JNull] }

\* aconsume from line 346 on: the acknowledgment is built, logged and returned.
\* Signing with a missing private key raises; so does a sink that raises.
Acknowledge(l, data, success, message, esbBody, nonce, sink) ==
    IF private_key = None
    THEN Finish(l, Raise("AttributeError"))
    ELSE LET esb_payload == build_esb_payload(esbBody, JNull, success, message,
                                              JNull, JNull, nonce)
         IN Finish([l EXCEPT !.audit = Some([api_code |-> None,
                                             request |-> esb_payload,
                                             response |-> data,
                                             sink |-> sink])],
                   IF sink = "raises" THEN Raise("log_govesb_calls")
                   ELSE Return(esb_payload))

\* aconsume up to its await of process_feedback, or to its return when the
\* signature does not verify, lines 336-360.
AconsumeStart(t) ==
    /\ StartCall(t)
    /\ created /\ attrs
    /\ \E req_body \in RequestBodies, nonce \in Nonces, sink \in SinkOutcomes :
        LET l == [NewCall("aconsume") EXCEPT !.req = Some(req_body)]
            data == IF req_body.data = None THEN EmptyBody ELSE req_body.data[1]
            verified == verify_signature(public_key, req_body.signature, data)
        IN
        Step(t, IF verified = "False"
                THEN Acknowledge(l, data, JBool(FALSE), JStr("Signature verification failed!"),
                                 EmptyBody, nonce, sink)
                ELSE IF verified = "True"
                THEN [l EXCEPT !.pc = "process_feedback", !.procCalls = @ + 1,
                               !.procArg = Some(DictGet(data, "esbBody", EmptyBody))]
                ELSE Finish(l, Raise(verified)))
    /\ UNCHANGED <<created, attrs, config, token, initialized, now, issued>>

\* aconsume after process_feedback, lines 344-360.
AconsumeResume(t) ==
    /\ task[t].pc = "process_feedback"
    /\ \E p \in ProcessResults, nonce \in Nonces, sink \in SinkOutcomes :
        LET l == [task[t] EXCEPT !.resp = Some(p)]
            data == IF l.req[1].data = None THEN EmptyBody ELSE l.req[1].data[1]
        IN
        Step(t, IF p.raises
                THEN Finish(l, Raise("process_feedback"))
                ELSE Acknowledge(l, data, p.success, p.message, p.esbBody, nonce, sink))
    /\ UNCHANGED <<created, attrs, config, token, initialized, now, issued, calls>>

\* ------------------------------------------------------ direct calls
\* The host may call the signing helpers itself. The payloads it passes:
SignedPayloads ==
    { EmptyBody,
      JDict(<<<<"a", JInt(1)>>>>),
      JDict(<<<<"b", JList(<<JInt(1), JStr("x"), JNull, JBool(TRUE)>>)>>,
              <<"a", JDict(<<<<"c", JBool(FALSE)>>>>)>>>>),
      JList(<<JStr("a"), JInt(1)>>),
      JStr("a") }

\* sign_payload(payload), lines 183-191.
SignPayload(t) ==
    /\ StartCall(t)
    /\ created /\ attrs
    /\ \E payload \in SignedPayloads, nonce \in Nonces :
        LET l == [NewCall("sign_payload") EXCEPT !.payload = Some(payload)]
        IN Step(t, Finish(l, IF private_key = None
                             THEN Raise("AttributeError")
                             ELSE Return(sign_payload(private_key[1], payload, nonce))))
    /\ UNCHANGED <<created, attrs, config, token, initialized, now, issued>>

\* The signature arguments of verify_signature: None, a text that is no
\* base64, base64 that is no signature, and signatures made with either key
\* pair over any of the payloads.
SignatureArgs ==
    { None, Some(NotBase64), Some(NotASignature) }
    \cup { Some(Signature(pair, trim_payload(q), nonce)) :
             pair \in {BusPair, OtherPair}, q \in SignedPayloads, nonce \in Nonces }

\* verify_signature(signature, payload), lines 193-205.
VerifySignature(t) ==
    /\ StartCall(t)
    /\ created /\ attrs
    /\ \E signature \in SignatureArgs, payload \in SignedPayloads :
        LET l == [NewCall("verify_signature") EXCEPT
                    !.payload = Some(payload),
                    !.req = Some([signature |-> signature])]
            v == verify_signature(public_key, signature, payload)
        IN Step(t, Finish(l, IF v = "True" THEN Return(TRUE)
                             ELSE IF v = "False" THEN Return(FALSE)
                             ELSE Raise(v)))
    /\ UNCHANGED <<created, attrs, config, token, initialized, now, issued>>

\* The optional arguments of build_esb_payload: None, a falsy value, a truthy
\* value.
ApiCodeArgs == {JNull, JStr(""), JStr("CODE1")}
SuccessArgs == {JNull, JBool(FALSE), JBool(TRUE)}
MessageArgs == {JNull, JStr(""), JStr("ok")}
ErrorsArgs == {JNull, JList(<<>>), JList(<<JInt(7)>>)}
ValidationErrorsArgs == {JNull, JList(<<>>), JList(<<JStr("bad")>>)}

\* build_esb_payload(payload, api_code, success, message, errors,
\* validation_errors), lines 213-242.
BuildEsbPayload(t) ==
    /\ StartCall(t)
    /\ created /\ attrs
    /\ \E payload \in Payloads,
          api_code \in ApiCodeArgs, success \in SuccessArgs, message \in MessageArgs,
          errors \in ErrorsArgs, validation_errors \in ValidationErrorsArgs,
          nonce \in Nonces :
        LET l == [NewCall("build_esb_payload") EXCEPT
                    !.payload = Some(payload),
                    !.req = Some([api_code |-> api_code, success |-> success,
                                  message |-> message, errors |-> errors,
                                  validation_errors |-> validation_errors])]
        IN Step(t, Finish(l, IF private_key = None
                             THEN Raise("AttributeError")
                             ELSE Return(build_esb_payload(payload, api_code, success,
                                             message, errors, validation_errors, nonce))))
    /\ UNCHANGED <<created, attrs, config, token, initialized, now, issued>>

\* ------------------------------------------------------ GovEsb() in threads
\* Between threads GovEsb() is not one step: __new__ tests _instance, takes
\* the lock, tests again and creates; __init__ tests hasattr and sets the
\* attributes. A task stands for the thread that runs it.

\* A __new__ without the second test.
MustCreateAlways == TRUE

\* if cls._instance is None, under the lock (line 28)
MustCreate == ~created

\* GovEsb(), line 26: the first test of _instance.
NewCheck(t) ==
    /\ StartCall(t)
    /\ Step(t, [NewCall("GovEsb") EXCEPT !.pc = IF ~created THEN "new_lock" ELSE "ctor_init"])
    /\ UNCHANGED <<created, attrs, config, token, initialized, now, issued>>

\* with cls._lock, line 27: one thread at a time.
NewLock(t) ==
    /\ task[t].pc = "new_lock"
    /\ \A u \in Tasks : task[u].pc # "new_locked"
    /\ Step(t, [task[t] EXCEPT !.pc = "new_locked"])
    /\ UNCHANGED <<created, attrs, config, token, initialized, now, issued, calls>>

\* Lines 28-30: the second test, the creation of the instance, the release of
\* the lock. The new instance has no attributes yet.
NewCreate(t) ==
    /\ task[t].pc = "new_locked"
    /\ IF MustCreate
       THEN /\ created' = TRUE
            /\ attrs' = FALSE
            /\ Step(t, [task[t] EXCEPT !.pc = "ctor_init", !.made = @ + 1])
       ELSE /\ UNCHANGED <<created, attrs>>
            /\ Step(t, [task[t] EXCEPT !.pc = "ctor_init"])
    /\ UNCHANGED <<config, token, initialized, now, issued, calls>>

\* __init__, line 33: the test of hasattr(self, 'initialized').
InitAttrCheck(t) ==
    /\ task[t].pc = "ctor_init"
    /\ Step(t, IF ~HasInitializedAttr
               THEN [task[t] EXCEPT !.pc = "ctor_body"]
               ELSE Finish(task[t], Return("instance")))
    /\ UNCHANGED <<created, attrs, config, token, initialized, now, issued, calls>>

\* __init__, lines 35-48: the attributes are set.
InitAttrBody(t) ==
    /\ task[t].pc = "ctor_body"
    /\ attrs' = TRUE
    /\ client_id' = None /\ client_secret' = None /\ grant_type' = None
    /\ private_key' = None /\ public_key' = None
    /\ engine_url' = None /\ token_url' = None /\ timeout' = None
    /\ auth_basic_body' = None
    /\ access_token' = None /\ token_expiry' = None
    /\ initialized' = FALSE
    /\ Step(t, Finish(task[t], Return("instance")))
    /\ UNCHANGED <<created, now, issued, calls>>

\* ------------------------------------------------------ cancellation
\* The task is cancelled while it is suspended: CancelledError is raised at
\* its await and, being no Exception, passes every `except Exception` of the
\* call. Inside request_esb_token the await is that of client.post, before
\* lines 141-146, or that of leaving `async with`, after them.
Cancel(t) ==
    /\ task[t].pc # "idle"
    /\ \/ /\ UNCHANGED token
          /\ Step(t, Finish(task[t], Raise("CancelledError")))
       \/ /\ task[t].pc \in TokenWaits
          /\ \E r \in TokenArrivals(t) :
              /\ access_token' = AccessTokenAfter(r)
              /\ token_expiry' = TokenExpiryAfter(r)
              /\ Step(t, Finish([task[t] EXCEPT !.resp = Some(r)], Raise("CancelledError")))
    /\ UNCHANGED <<created, attrs, config, initialized, now, issued, calls>>

\* ------------------------------------------------------ specifications
\* The token lifecycle under concurrency: every task may construct the
\* instance, initialize it and ask for it.
TokenStep(t) ==
    \/ TokenEndpoint(t)
    \/ InitStart(t)
    \/ InitResume(t)
    \/ GetInstanceStart(t)
    \/ GetInstanceLazyResume(t)
    \/ GetInstanceRefreshResume(t)

Next ==
    \/ Construct
    \/ Tick
    \/ \E t \in Tasks : TokenStep(t)

Spec == Init /\ [][Next]_vars

\* The protocol flows: one task initializes the instance, asks for it and
\* runs consume and aconsume on it.
FlowTasks == {"t1"}

FlowStep(t) ==
    \/ ConsumeStart(t)
    \/ ConsumeResume(t)
    \/ AconsumeStart(t)
    \/ AconsumeResume(t)

NextFlow ==
    \/ Construct
    \/ Tick
    \/ \E t \in FlowTasks : TokenStep(t)
    \/ \E t \in FlowTasks : FlowStep(t)

SpecFlow == Init /\ [][NextFlow]_vars

\* The signing helpers on an initialized manager: init has run with the
\* default grant type, loaded the keys of one key pair and fetched a first
\* token that has not expired yet.
InitEnvelope ==
    /\ created = TRUE
    /\ attrs = TRUE
    /\ \E a \in {x \in InitArgs : /\ PrivatePemLoads(x.private_key)
                                  /\ PublicPemLoads(x.public_key)
                                  /\ x.grant_type = ""} :
        /\ client_id = Some(a.client_id)
        /\ client_secret = Some(a.client_secret)
        /\ grant_type = Some(IF a.grant_type # "" THEN a.grant_type ELSE "client_credentials")
        /\ private_key = Some(get_private_key_from_pem(a.private_key))
        /\ public_key = Some(get_public_key_from_pem(a.public_key))
        /\ engine_url = Some(a.engine_url)
        /\ token_url = Some(a.token_url)
        /\ timeout = Some(a.timeout)
        /\ auth_basic_body = Some([client_id |-> a.client_id,
                                   client_secret |-> a.client_secret,
                                   grant_type |-> grant_type[1]])
        /\ access_token = Some([n |-> 1, client |-> client_id])
    /\ \E e \in {x \in ExpiresIn : x > Margin} : token_expiry = Some(e - Margin)
    /\ initialized = TRUE
    /\ now = 0
    /\ issued = 1
    /\ task = [t \in Tasks |-> IdleTask]
    /\ last = IdleTask
    /\ calls = 0

\* The token lifecycle and consume of a task that may be cancelled at its
\* awaits.
CancelStep(t) ==
    \/ TokenStep(t)
    \/ ConsumeStart(t)
    \/ ConsumeResume(t)
    \/ Cancel(t)

NextCancel ==
    \/ Construct
    \/ Tick
    \/ \E t \in FlowTasks : CancelStep(t)

SpecCancel == Init /\ [][NextCancel]_vars

\* Threads that construct GovEsb() step by step and run init on the instance.
ThreadStep(t) ==
    \/ NewCheck(t)
    \/ NewLock(t)
    \/ NewCreate(t)
    \/ InitAttrCheck(t)
    \/ InitAttrBody(t)
    \/ InitStart(t)
    \/ TokenEndpoint(t)
    \/ InitResume(t)

NextThreads == \E t \in Tasks : ThreadStep(t)

SpecThreads == Init /\ [][NextThreads]_vars

EnvelopeStep(t) ==
    \/ SignPayload(t)
    \/ VerifySignature(t)
    \/ BuildEsbPayload(t)

NextEnvelope == \E t \in FlowTasks : EnvelopeStep(t)

SpecEnvelope == InitEnvelope /\ [][NextEnvelope]_vars

\* ------------------------------------------------------ claims
\* Task t starts a call of the method `name` in this step.
Starts(t, name) ==
    /\ task[t].pc = "idle"
    /\ calls' = calls + 1
    /\ IF task'[t].pc = "idle" THEN last'.op = name ELSE task'[t].op = name

\* Task t is inside the request_esb_token of line 66, having found the
\* manager initialized and its token expired.
Refreshing(t) ==
    /\ task[t].pc = "refresh_token"
    /\ task[t].entry.initialized
    /\ task[t].entry.token = "expired"

\* C1: when several tasks call get_instance on an initialized manager whose
\* token is expired, one token-endpoint request is made for that expiry: no two
\* of the tasks are inside the refresh request at once.
C1_ExactlyOneRefresh ==
    \A t1, t2 \in Tasks : (Refreshing(t1) /\ Refreshing(t2)) => t1 = t2

\* The POST of a consume call ended in one of the failures: no response, a
\* non-2xx status, a body that is no JSON, a signature that does not verify.
ConsumeFailed(l) ==
    \/ l.resp[1].kind # "json"
    \/ l.resp[1].json.signature = None
    \/ l.resp[1].json.data = None
    \/ verify_signature(public_key, l.resp[1].json.signature, l.resp[1].json.data[1]) # "True"

\* C2: a consume call that has posted never raises, and returns a result with
\* success == false when the POST failed or the response does not verify.
C2_ConsumeNeverRaises ==
    (last.op = "consume" /\ last.posts = 1) =>
        /\ last.ret.kind = "return"
        /\ ConsumeFailed(last) => last.ret.val.success = JBool(FALSE)

\* The request body of an aconsume call, with both keys loaded and an audit
\* sink that does not fail, carries a signature that does not verify over its
\* data.
InboundInvalid(l) ==
    /\ private_key # None /\ public_key # None
    /\ l.audit # None => l.audit[1].sink = "ok"
    /\ verify_signature(public_key, l.req[1].signature,
                        IF l.req[1].data = None THEN EmptyBody ELSE l.req[1].data[1]) # "True"

\* The acknowledgment of a failed verification.
GateData ==
    JDict(<<<<"esbBody", EmptyBody>>, <<"success", JBool(FALSE)>>,
            <<"message", JStr("Signature verification failed!")>>>>)

\* C3: for an inbound envelope whose signature does not verify, aconsume returns
\* an envelope whose data is {esbBody: {}, success: false, message: "Signature
\* verification failed!"} and never invokes process_feedback.
C3_SignatureGate ==
    (last.op = "aconsume" /\ InboundInvalid(last)) =>
        /\ last.procCalls = 0
        /\ last.ret.kind = "return"
        /\ last.ret.val.data = Some(GateData)

\* C4: once a token fetch has succeeded, a get_instance call makes one
\* token-endpoint request when it finds now >= token_expiry and none when it
\* finds now < token_expiry.
C4_ExpiryBoundary ==
    (last.op = "get_instance" /\ last.entry.token # "none") =>
        last.tokReqs = (IF last.entry.token = "expired" THEN 1 ELSE 0)

\* Task t resumes from a request_esb_token that returns False and finishes its
\* call in this step.
FailsFetch(t) ==
    /\ task[t].pc \in TokenWaits
    /\ task'[t].pc = "idle"
    /\ last'.fetched = "failed"

\* C5: a request_esb_token that fails leaves access_token and token_expiry as
\* they were, and the get_instance call that made it raises.
C5_FailedRefreshKeepsToken ==
    [][\A t \in Tasks : FailsFetch(t) =>
          /\ access_token' = access_token
          /\ token_expiry' = token_expiry
          /\ last'.op = "get_instance" => last'.ret.kind = "raise"]_vars

\* C6: init returns True only if the manager is initialized when it returns.
C6_InitFailureSurfaced ==
    (last.op = "init" /\ last.ret.val = TRUE) => initialized

\* C7: an init call on an initialized manager, whatever its arguments, leaves
\* the configuration, the keys and the token unchanged, makes no token-endpoint
\* request and returns True.
C7_SecondInitNoOp ==
    [][\A t \in Tasks : (initialized /\ Starts(t, "init")) =>
          /\ UNCHANGED <<config, token, initialized>>
          /\ task'[t].pc = "idle"
          /\ last'.tokReqs = 0
          /\ last'.ret.kind = "return"
          /\ last'.ret.val = TRUE]_vars

\* An init call that found the manager initialized has returned.
C7_Witness ==
    /\ initialized
    /\ last.op = "init"
    /\ last.entry.initialized
    /\ last.ret.kind = "return"

\* The result the spec gives a consume call that cannot obtain a valid token.
TokenUnavailable ==
    [ConsumeFailure("") EXCEPT !.message = JStr("token unavailable"), !.requestId = JNull]

\* C8: a consume call that finds the private key loaded and a token for which
\* now >= token_expiry makes no POST to {engine_url}/request and returns the
\* "token unavailable" result.
C8_ConsumeEnsuresToken ==
    /\ \A t \in Tasks : (task[t].op = "consume" /\ task[t].entry.token = "expired") =>
          task[t].pc # "bus_post"
    /\ (last.op = "consume" /\ private_key # None /\ last.entry.token = "expired") =>
          (last.posts = 0 /\ last.ret.kind = "return" /\ last.ret.val = TokenUnavailable)

\* C9: every consume call that has posted and returns has reached
\* log_govesb_calls with its apiCode.
C9_AlwaysAudited ==
    (last.op = "consume" /\ last.posts = 1 /\ last.ret.kind = "return") =>
        (last.audit # None /\ last.audit[1].api_code = last.api_code)

\* C10: a log_govesb_calls that raises changes neither what consume returns nor
\* that aconsume returns its acknowledgment.
C10_SinkFailureHarmless ==
    /\ (last.op = "consume" /\ last.audit # None) =>
          last.ret = ConsumeResult(last, last.resp[1], "ok")
    /\ (last.op = "aconsume" /\ last.audit # None) => last.ret.kind = "return"


\* The signature argument of the last verify_signature call is a correct
\* signature: one made with the configured key pair over the canonical bytes of
\* the payload argument.
CorrectSignature(l) ==
    /\ l.req[1].signature # None
    /\ l.req[1].signature[1].b64 /\ l.req[1].signature[1].der
    /\ l.req[1].signature[1].pair = public_key[1]
    /\ l.req[1].signature[1].bytes = trim_payload(l.payload[1])

\* C11: verify_signature never throws: for every signature argument (None, no
\* base64, base64 that is no signature, a signature of other bytes, a correct
\* signature) it returns a boolean, and True only for the correct signature.
C11_VerifyNeverThrows ==
    (last.op = "verify_signature" /\ public_key # None) =>
        /\ last.ret.kind = "return"
        /\ last.ret.val = CorrectSignature(last)

\* The audit sink did not fail in the call l.
SinkWorked(l) == l.audit # None => l.audit[1].sink = "ok"

\* The data object aconsume read from the request body of the call l.
InboundOf(l) == IF l.req[1].data = None THEN EmptyBody ELSE l.req[1].data[1]

\* C12: aconsume never raises: for every inbound request body (no signature, a
\* malformed signature, no data) and every tuple process_feedback returns, it
\* returns a signed envelope.
C12_AcknowledgeNeverRaises ==
    ( /\ last.op = "aconsume"
      /\ private_key # None /\ public_key # None
      /\ SinkWorked(last)
      /\ last.resp # None => ~last.resp[1].raises ) =>
        /\ last.ret.kind = "return"
        /\ last.ret.val.signature # None

\* C13: for an inbound envelope whose signature verifies, process_feedback is
\* invoked exactly once with data.esbBody, and for the tuple (success, message,
\* body) it returns, the acknowledgment's data carries that success, that
\* message and esbBody = body, and its signature verifies against that data.
C13_AcknowledgePassthrough ==
    ( /\ last.op = "aconsume"
      /\ private_key # None /\ public_key # None
      /\ SinkWorked(last)
      /\ verify_signature(public_key, last.req[1].signature, InboundOf(last)) = "True"
      /\ last.resp # None
      /\ ~last.resp[1].raises ) =>
        /\ last.procCalls = 1
        /\ last.procArg = Some(DictGet(InboundOf(last), "esbBody", EmptyBody))
        /\ last.ret.kind = "return"
        /\ LET out == last.ret.val.data[1]
               p == last.resp[1]
           IN /\ DictGet(out, "success", JNull) = p.success
              /\ DictGet(out, "message", JNull) = p.message
              /\ DictGet(out, "esbBody", JNull) = p.esbBody
              /\ verify_signature(private_key, last.ret.val.signature, out) = "True"

\* The optional field `name` is in data exactly when the argument arg was
\* supplied (is not None), and then with the value supplied.
PresentIffSupplied(data, name, arg) ==
    /\ HasKey(data, name) <=> arg # JNull
    /\ arg # JNull => DictGet(data, name, JNull) = arg

\* C14: each of apiCode, success, message, errors, validationErrors is in the
\* data of build_esb_payload exactly when the caller supplied a value for it: a
\* supplied falsy value (False, "", []) is included, an absent one is omitted.
C14_OptionalFieldsIffSupplied ==
    (last.op = "build_esb_payload" /\ last.ret.kind = "return") =>
        LET data == last.ret.val.data[1]
            a == last.req[1]
        IN /\ DictGet(data, "esbBody", JNull) = last.payload[1]
           /\ PresentIffSupplied(data, "apiCode", a.api_code)
           /\ PresentIffSupplied(data, "success", a.success)
           /\ PresentIffSupplied(data, "message", a.message)
           /\ PresentIffSupplied(data, "errors", a.errors)
           /\ PresentIffSupplied(data, "validationErrors", a.validation_errors)

\* The bus answered the consume call l with a 2xx JSON envelope that has a
\* data object and a signature text.
EnvelopeAnswer(l) ==
    /\ l.op = "consume"
    /\ l.posts = 1
    /\ l.resp[1].kind = "json"
    /\ l.resp[1].json.data # None
    /\ l.resp[1].json.signature # None

\* verify_signature on the response of the consume call l.
ResponseVerifies(l) ==
    verify_signature(public_key, l.resp[1].json.signature, l.resp[1].json.data[1])

\* C15 as stated: when the bus answers 2xx with a well-formed envelope whose
\* signature does not verify over its data, consume returns a failure result
\* whose message is "Signature verification failed!".
C15_SignatureFailureText ==
    (EnvelopeAnswer(last) /\ ResponseVerifies(last) = "False") =>
        /\ last.ret.kind = "return"
        /\ last.ret.val.success = JBool(FALSE)
        /\ last.ret.val.message = JStr("Signature verification failed!")

\* C15: when the bus answers 2xx with a well-formed envelope whose signature
\* does not verify over its data, consume returns the failure result of its
\* except branch: success False, esbBody {} and the message "Failed to consume
\* from apiCode: <api_code>"; the text "Signature verification failed!" goes
\* to the exception log only.
C15_SignatureFailureResult ==
    (EnvelopeAnswer(last) /\ ResponseVerifies(last) = "False") =>
        /\ last.ret.kind = "return"
        /\ last.ret.val.success = JBool(FALSE)
        /\ last.ret.val.esbBody = EmptyBody
        /\ last.ret.val.message = JStr("Failed to consume from apiCode: " \o last.api_code[1])

C15_Witness ==
    /\ EnvelopeAnswer(last)
    /\ ResponseVerifies(last) = "False"
    /\ last.resp[1].json.signature[1].der
    /\ last.resp[1].json.signature[1].pair = public_key[1]
    /\ last.ret.kind = "return"

\* The signature of the response of the consume call l is a well-formed
\* signature over the response's data, made with a key pair other than the
\* one of the configured public key.
SignedWithOtherKey(l) ==
    /\ l.resp[1].json.signature[1].b64
    /\ l.resp[1].json.signature[1].der
    /\ l.resp[1].json.signature[1].bytes = trim_payload(l.resp[1].json.data[1])
    /\ l.resp[1].json.signature[1].pair # public_key[1]

\* C16: after a successful init, when the bus answers consume(payload,
\* api_code) with a 2xx envelope signed with another key, consume returns
\* success False and a message that names the api_code of the call, and the
\* esbBody of the response is not returned.
C16_WrongKeyResponse ==
    ( /\ EnvelopeAnswer(last)
      /\ last.entry.initialized
      /\ SignedWithOtherKey(last) ) =>
        /\ last.ret.kind = "return"
        /\ last.ret.val.success = JBool(FALSE)
        /\ last.ret.val.message = JStr("Failed to consume from apiCode: " \o last.api_code[1])
        /\ last.ret.val.esbBody = EmptyBody

C16_Witness ==
    /\ EnvelopeAnswer(last)
    /\ last.entry.initialized
    /\ SignedWithOtherKey(last)
    /\ DictGet(last.resp[1].json.data[1], "esbBody", EmptyBody) # EmptyBody
    /\ last.ret.kind = "return"

\* C17: when the POST fails at the network level (connection error, timeout)
\* or is answered with a non-2xx status, consume returns a result with success
\* False, esbBody {} and a message that names api_code.
C17_TransportFailureResult ==
    ( /\ last.op = "consume"
      /\ last.posts = 1
      /\ last.resp[1].kind \in {"transport_error", "status_error"} ) =>
        last.ret = Return(ConsumeFailure(last.api_code[1]))

\* C18: when the bus answers 2xx with an envelope whose signature verifies over
\* its data, consume returns the result whose success, requestId, esbBody,
\* message, errors and validationErrors are those of the response data, absent
\* fields taking their defaults.
C18_SuccessMapsResponse ==
    ( /\ EnvelopeAnswer(last)
      /\ SinkWorked(last)
      /\ ResponseVerifies(last) = "True" ) =>
        last.ret = Return(GovEsvData(last.resp[1].json.data[1]))

\* C19: sign/verify round trip: for every payload P and a matching key pair,
\* verify_signature(sign_payload(P), P) is True, both sides serializing P with
\* trim_payload.
C19_SignVerifyRoundTrip ==
    ( /\ last.op = "sign_payload"
      /\ last.ret.kind = "return"
      /\ public_key = private_key ) =>
        verify_signature(public_key, Some(last.ret.val), last.payload[1]) = "True"

C19_Witness ==
    /\ last.op = "sign_payload"
    /\ last.ret.kind = "return"
    /\ public_key = private_key
    /\ last.payload[1].t = "dict"
    /\ Len(last.payload[1].items) = 2

\* The envelope's signature was made with the stored private key over the
\* canonical bytes of the envelope's own data object.
SignsItsData(env) ==
    /\ env.signature[1].pair = private_key[1]
    /\ env.signature[1].bytes = trim_payload(env.data[1])

\* C20: in every envelope build_esb_payload produces (the request consume
\* posts and logs, the acknowledgment aconsume logs and returns) the signature
\* is over the canonical bytes of the data object of that envelope, and consume
\* and aconsume accept a received envelope only when its signature verifies
\* over its data object.
C20_SignatureCoversData ==
    /\ \A t \in Tasks : task[t].pc = "bus_post" => SignsItsData(task[t].req[1].json)
    /\ (last.op \in {"consume", "aconsume"} /\ last.audit # None) =>
            SignsItsData(last.audit[1].request)
    /\ (last.op = "aconsume" /\ last.ret.kind = "return") => SignsItsData(last.ret.val)
    /\ (last.op = "aconsume" /\ public_key # None) =>
            ( last.procCalls = 1 <=>
              verify_signature(public_key, last.req[1].signature, InboundOf(last)) = "True" )
    /\ ( /\ EnvelopeAnswer(last)
         /\ last.ret.kind = "return"
         /\ last.ret.val.success = JBool(TRUE) ) =>
            ResponseVerifies(last) = "True"

C20_Witness ==
    /\ last.op = "aconsume"
    /\ last.procCalls = 1
    /\ last.ret.kind = "return"
    /\ DictGet(last.ret.val.data[1], "message", JNull) = JStr("ok")

\* A call of the method `name` finishes in this step.
Finishes(name) ==
    /\ last'.op = name
    /\ \/ calls' = calls + 1
       \/ \E t \in Tasks : task[t].pc # "idle" /\ task'[t].pc = "idle"

\* C21: whenever get_instance returns the instance, the stored token is valid
\* at that moment: now < token_expiry, for every expires_in the token endpoint
\* may send.
C21_ReturnedTokenValid ==
    [][(Finishes("get_instance") /\ last'.ret.kind = "return") =>
          /\ token_expiry' # None
          /\ now' < token_expiry'[1]]_vars

\* C22: a first token fetch that succeeds on an uninitialized manager, inside
\* init or inside the retried initialization of get_instance, leaves the
\* manager initialized.
C22_FirstFetchMakesReady ==
    ( /\ last.op \in {"init", "get_instance"}
      /\ ~last.entry.initialized
      /\ last.fetched = "ok" ) =>
        initialized

\* init has stored a client id, a client secret, a grant type and a token URL.
ConfigStored ==
    /\ created
    /\ client_id # None /\ client_secret # None
    /\ grant_type # None /\ token_url # None

NotInitializedError == Raise("GovEsb service is not initialized.")

\* C23: get_instance on an uninitialized manager requests a token only if a
\* configuration is stored; with no instance or no stored configuration it
\* fails with the not-initialized error and sends nothing; if the retried fetch
\* fails it fails with the not-initialized error too.
C23_UninitializedHandling ==
    [][\A t \in Tasks :
          /\ (Starts(t, "get_instance") /\ (~created \/ ~initialized)) =>
                IF ConfigStored
                THEN task'[t].pc = "lazy_token" /\ task'[t].tokReqs = 1
                ELSE /\ task'[t].pc = "idle"
                     /\ last'.tokReqs = 0
                     /\ last'.ret = NotInitializedError
          /\ (task[t].pc = "lazy_token" /\ FailsFetch(t)) =>
                last'.ret = NotInitializedError]_vars

C23_Witness ==
    /\ last.op = "get_instance"
    /\ ~last.entry.initialized
    /\ last.tokReqs = 1
    /\ last.fetched = "failed"
    /\ last.ret = NotInitializedError

\* The request_esb_token of task t succeeds in this step: the response that
\* travelled back carries an access token and expires_in.
SucceedsFetch(t) ==
    /\ task[t].pc \in TokenWaits
    /\ task'[t].pc # task[t].pc
    /\ task[t].resp # None
    /\ task[t].resp[1].body.access_token # None
    /\ task[t].resp[1].body.expires_in # None

\* The manager is initialized and its token is expired.
ManagerFailed == initialized /\ token_expiry # None /\ now >= token_expiry[1]

\* C24: a refresh that fails leaves the manager initialized with its expired
\* token and the call raises; from then on the token stays expired and no
\* get_instance call returns the instance until a token fetch succeeds; the
\* refresh that succeeds installs the new token and returns the instance.
C24_FailedStateRecovery ==
    [][ /\ \A t \in Tasks : (task[t].pc = "refresh_token" /\ FailsFetch(t)) =>
              /\ initialized' = initialized
              /\ token_expiry' = token_expiry
              /\ last'.ret.kind = "raise"
        /\ (ManagerFailed /\ ~\E t \in Tasks : SucceedsFetch(t)) => ManagerFailed'
        /\ (ManagerFailed /\ Finishes("get_instance") /\ last'.ret.kind = "return") =>
              \E t \in Tasks : SucceedsFetch(t)
        /\ \A t \in Tasks : (task[t].pc = "refresh_token" /\ SucceedsFetch(t)) =>
              /\ initialized => initialized'
              /\ access_token' = task[t].resp[1].body.access_token
              /\ token_expiry' = Some(now + task[t].resp[1].body.expires_in[1] - Margin)
              /\ last'.ret = Return("instance") ]_vars

C24_Witness ==
    /\ last.op = "get_instance"
    /\ last.entry.initialized
    /\ last.entry.token = "expired"
    /\ last.fetched = "failed"
    /\ last.ret.kind = "raise"
    /\ ManagerFailed

\* The manager is initialized and its token is valid.
ManagerReady == created /\ initialized /\ token_expiry # None /\ now < token_expiry[1]

\* C25: a get_instance call that finds the manager initialized with a valid
\* token returns the instance at once, without a token request, whatever
\* other calls are in flight; and the token request of another get_instance
\* call that fails meanwhile does not change the token such a reader sees.
C25_ReadersNeverBlock ==
    [][ /\ \A t \in Tasks : (ManagerReady /\ Starts(t, "get_instance")) =>
              /\ task'[t].pc = "idle"
              /\ last'.ret = Return("instance")
              /\ last'.tokReqs = 0
              /\ UNCHANGED token
        /\ \A t \in Tasks :
              (ManagerReady /\ task[t].op = "get_instance" /\ FailsFetch(t)) =>
                  access_token' = access_token ]_vars

\* C27: no internal retries: one get_instance call makes at most one
\* token-endpoint request, one init at most one, and one consume at most one
\* POST to {engine_url}/request, on every path.
C27_NoInternalRetries ==
    /\ \A t \in Tasks : task[t].tokReqs <= 1 /\ task[t].posts <= 1
    /\ last.tokReqs <= 1 /\ last.posts <= 1

\* C28: a token fetch that succeeds at time t with expires_in = E stores
\* token_expiry = t + E - 60 and the access_token of the response, and nothing
\* else changes token_expiry.
C28_ExpiryComputation ==
    [][ /\ \A t \in Tasks : SucceedsFetch(t) =>
              /\ token_expiry' = Some(now + task[t].resp[1].body.expires_in[1] - 60)
              /\ access_token' = task[t].resp[1].body.access_token
        /\ token_expiry' # token_expiry => \E t \in Tasks : SucceedsFetch(t) ]_vars

C28_Witness ==
    /\ last.fetched = "ok"
    /\ last.resp[1].body.expires_in = Some(61)
    /\ token_expiry = Some(now + 1)
    /\ access_token = last.resp[1].body.access_token

\* C30: whenever get_instance has returned the instance, the private and the
\* public key are loaded.
C30_KeysLoadedOnReturn ==
    (last.op = "get_instance" /\ last.ret.kind = "return") =>
        private_key # None /\ public_key # None

\* The step stores the token of the one complete response (access_token and
\* expires_in) that travelled back to task t.
InstallsResponse(t) ==
    /\ task[t].pc \in TokenWaits
    /\ task[t].resp # None
    /\ task[t].resp[1].body.access_token # None
    /\ task[t].resp[1].body.expires_in # None
    /\ access_token' = task[t].resp[1].body.access_token
    /\ token_expiry' = Some(now + task[t].resp[1].body.expires_in[1] - Margin)

\* C26: a call that is cancelled at an await leaves the pair (access_token,
\* token_expiry) as it was before or as one complete token response gives it,
\* and no step at all writes the access token of a response without the
\* expiry of the same response.
C26_CancellationConsistency ==
    [][ /\ (\E t \in Tasks : task[t].pc # "idle" /\ task'[t].pc = "idle"
                             /\ last'.ret = Raise("CancelledError")) =>
              (UNCHANGED token \/ \E t \in Tasks : InstallsResponse(t))
        /\ (access_token' # access_token \/ token_expiry' # token_expiry) =>
              \E t \in Tasks : InstallsResponse(t) ]_vars

C31_InitializedImpliesComplete ==
    initialized =>
        /\ client_id # None /\ client_secret # None
        /\ grant_type # None /\ token_url # None
        /\ private_key # None /\ public_key # None
        /\ access_token # None /\ token_expiry # None

C31_Witness ==
    /\ initialized
    /\ last.op = "get_instance"
    /\ last.entry.initialized
    /\ last.ret = Return("instance")

\* No call is suspended at an await.
AllIdle == \A t \in Tasks : task[t].pc = "idle"

\* C32: when init calls with different credentials run concurrently on the
\* uninitialized manager, the access_token stored when they are done was
\* issued for the client id that is stored then.
C32_TokenMatchesCredentials ==
    ( /\ AllIdle
      /\ last.op = "init"
      /\ last.fetched = "ok" ) =>
        access_token[1].client = client_id

\* C33: when several token fetches are in flight at once, the token installed
\* after all of them have completed is the one the token endpoint issued last.
C33_LatestTokenWins ==
    (AllIdle /\ last.fetched = "ok") => access_token[1].n = issued

\* C34: on every consume call that reaches the audit sink, the request
\* envelope handed to log_govesb_calls is the envelope that was posted to the
\* bus: the same data and the same signature.
C34_AuditedRequestEqualsSent ==
    (last.op = "consume" /\ last.audit # None) =>
        last.audit[1].request = last.req[1].json

\* A step of a consume or an acknowledge call of task t.
FlowStepOf(t) ==
    \/ Starts(t, "consume")
    \/ Starts(t, "aconsume")
    \/ /\ task[t].pc # "idle"
       /\ task[t].op \in {"consume", "aconsume"}
       /\ task'[t] # task[t]

\* A step of init, or the resumption of a token fetch, of task t.
TokenWriterStepOf(t) ==
    \/ Starts(t, "init")
    \/ task[t].pc \in TokenWaits /\ task'[t] # task[t]

\* C35: every step of consume and of acknowledge, failures included, leaves
\* the credentials, the keys, access_token, token_expiry and the initialized
\* flag unchanged; a step that changes one of them is a step of init or of a
\* token fetch.
C35_FlowsLeaveTokenState ==
    [][ /\ (\E t \in Tasks : FlowStepOf(t)) =>
              UNCHANGED <<config, token, initialized>>
        /\ ~ UNCHANGED <<config, token, initialized>> =>
              \E t \in Tasks : TokenWriterStepOf(t) ]_vars

C35_Witness ==
    /\ initialized
    /\ access_token # None
    /\ last.op = "consume"
    /\ last.ret = Return(ConsumeFailure(last.api_code[1]))

====
